---- MODULE Spec2Model ----
(***************************************************************************)
(* A model of taskwarrior-schedule: the TaskWarrior adapter                 *)
(* (src/src/schedule/taskwarrior.py) with its report-name cache, the        *)
(* filter-or-report resolution of get_tasks and the command built by        *)
(* modify_task, and the application (src/src/schedule/app.py) with its      *)
(* task table, selection set, active date fields and batch handlers.        *)
(* Spec follows one adapter client, AppSpec follows the application.        *)
(*                                                                          *)
(* Text is modelled as a sequence of pieces.  A piece is a non-empty        *)
(* string; the text is the concatenation of its pieces.  Whitespace pieces  *)
(* are separate pieces, so str.strip and str.split are computed on the      *)
(* sequence as Python computes them on the characters.  A line of the       *)
(* engine's `_config` output is a sequence of pieces in which "." and "="   *)
(* are pieces of their own.                                                 *)
(*                                                                          *)
(* An Optional value is a set with at most one element: None is {} and      *)
(* a present value v is {v}.                                                *)
(***************************************************************************)
EXTENDS Integers, Sequences, FiniteSets, TLC

VARIABLES
    report_cache,       \* self._report_cache: Optional set of report names
    report_cache_time,  \* self._report_cache_time
    now,                \* the value time.time() returns
    request,            \* the call the client is used for: operation, arguments
    calls,              \* the subprocess.run invocations of the last operation
                        \* (of the last step: none when it made no adapter call)
    last,               \* the last adapter operation and its outcome
    running,            \* the engine process subprocess.run is waiting for
    columns_added,      \* self.columns_added: on_mount has run
    tasks,              \* self.tasks: the snapshot
    rows,               \* the rows of the DataTable, in display order
    cursor_row,         \* table.cursor_row
    selected_tasks,     \* self.selected_tasks
    active_fields,      \* the active set of self.date_field_mgr
    sort_mode,          \* self.sort_mode
    current_filter,     \* self.current_filter
    escaped,            \* the exception that left a handler and ended the app
    handler             \* the last handler: what it reported and asked for

adaptervars ==
    <<report_cache, report_cache_time, now, request, calls, last, running>>

appvars ==
    <<columns_added, tasks, rows, cursor_row, selected_tasks, active_fields,
      sort_mode, current_filter, escaped, handler>>

vars == <<adaptervars, appvars>>

----------------------------------------------------------------------------
(* Bounds of the model *)

\* longest filter_or_report argument, in pieces
MaxLen == 3
\* most keyword arguments of one modify_task call
MaxMods == 2
\* the clock when the client is constructed
StartTime == 20
\* how far the clock runs past StartTime
Horizon == 16
\* longest list a date field state is constructed with
MaxFields == 3

----------------------------------------------------------------------------
(* Optional values and text *)

None == {}

Some(v) == {v}

TheValue(opt) == CHOOSE v \in opt : TRUE

Whitespace == {" ", "\t"}

\* the pieces filter_or_report arguments are made of
InputPieces == {" ", "next", "p:w"}

RECURSIVE StringsUpTo(_, _)
StringsUpTo(pieces, n) ==
    IF n = 0 THEN {<<>>}
    ELSE LET shorter == StringsUpTo(pieces, n - 1)
         IN  shorter \cup {Append(s, p) : s \in shorter, p \in pieces}

\* the values of the filter_or_report argument
FilterArgs == {None} \cup {Some(s) : s \in StringsUpTo(InputPieces, MaxLen)}

\* the text a piece sequence stands for
RECURSIVE Join(_)
Join(s) == IF s = <<>> THEN "" ELSE Head(s) \o Join(Tail(s))

\* str.strip(): leading and trailing whitespace removed
RECURSIVE LStrip(_)
LStrip(s) ==
    IF s # <<>> /\ Head(s) \in Whitespace THEN LStrip(Tail(s)) ELSE s

RECURSIVE RStrip(_)
RStrip(s) ==
    IF s # <<>> /\ s[Len(s)] \in Whitespace
    THEN RStrip(SubSeq(s, 1, Len(s) - 1))
    ELSE s

strip(s) == RStrip(LStrip(s))

\* the first maximal run of non-whitespace pieces of s (s starts with one)
RECURSIVE Word(_)
Word(s) ==
    IF s = <<>> \/ Head(s) \in Whitespace THEN <<>>
    ELSE <<Head(s)>> \o Word(Tail(s))

\* str.split(): the maximal runs of non-whitespace, as strings, in order
RECURSIVE split(_)
split(s) ==
    IF s = <<>> THEN <<>>
    ELSE IF Head(s) \in Whitespace THEN split(Tail(s))
    ELSE LET w == Word(s)
         IN  <<Join(w)>> \o split(SubSeq(s, Len(w) + 1, Len(s)))

----------------------------------------------------------------------------
(* The engine: what a subprocess can answer *)

command == "task"

report_cache_ttl == 15

ReturnCodes == {0, 1}

Stderrs == {"", "engine error"}

\* outputs of `task _config`, as lines
ConfigNext ==
    << <<"report", ".", "next", ".", "columns", "=", "id">>,
       <<"report", ".", "next", ".", "filter", "=", "status", ":", "pending">>,
       <<"color", ".", "active", "=", "bold">>,
       <<"report", ".", "p:w", ".", "=", "x">>,
       <<>> >>

ConfigAll ==
    << <<"report", ".", "all", ".", "columns">>,
       <<"report", ".", "next">>,
       <<"report", ".", ".", "labels", "=", "ID">>,
       <<"reports", ".", "p:w", ".", "columns", "=", "id">> >>

ConfigOutputs == {ConfigNext, ConfigAll}

\* A task record of an export.  A key the record lacks is the empty string:
\* the code reads uuid, description and project with .get(key, "") and the
\* dates through format_date, which shows "" and the missing "-" alike.
Task(id, uuid, description, project, scheduled, due) ==
    [id |-> id, uuid |-> uuid, description |-> description,
     project |-> project, scheduled |-> scheduled, due |-> due]

TaskA == Task(1, "u1", "write report", "work", "20260206T000000Z", "")

TaskB == Task(2, "u2", "buy milk", "home", "", "20260101T000000Z")

\* a record without a uuid
TaskC == Task(3, "", "call back", "", "", "")

\* what json.loads makes of a text that is JSON: a list of records, or a
\* value that is no list (here the empty object `{}`)
JSONList(items) == [kind |-> "list", items |-> items]

JSONObject == [kind |-> "object", items |-> <<>>]

\* outputs of `task export`: the parsed JSON, None when the text is no JSON
ExportOutputs ==
    { Some(JSONList(<<>>)),
      Some(JSONList(<<TaskA, TaskB>>)),
      Some(JSONList(<<TaskC, TaskB>>)),
      Some(JSONObject),
      None }

----------------------------------------------------------------------------
(* get_report_names *)

\* index of the first piece of s equal to p, Len(s) + 1 when there is none
RECURSIVE Find(_, _)
Find(s, p) ==
    IF s = <<>> THEN 1
    ELSE IF Head(s) = p THEN 1
    ELSE 1 + Find(Tail(s), p)

\* a variant of line 56 whose field may be empty (`[^=]*` for `[^=]+`)
ReportMatchEmptyField(line) ==
    IF Len(line) < 2 \/ line[1] # "report" \/ line[2] # "."
    THEN None
    ELSE LET rest == SubSeq(line, 3, Len(line))
             dot  == Find(rest, ".")
             name == SubSeq(rest, 1, dot - 1)
         IN  IF dot > Len(rest) \/ name = <<>>
             THEN None
             ELSE Some(Join(name))

\* re.match(r"^report\.([^.]+)\.[^=]+(?:=|$)", line): the group, or None
ReportMatch(line) ==
    IF Len(line) < 2 \/ line[1] # "report" \/ line[2] # "."
    THEN None
    ELSE LET rest  == SubSeq(line, 3, Len(line))
             dot   == Find(rest, ".")
             name  == SubSeq(rest, 1, dot - 1)
             after == SubSeq(rest, dot + 1, Len(rest))
             eq    == Find(after, "=")
         IN  IF dot > Len(rest) \/ name = <<>> \/ eq = 1
             THEN None
             ELSE Some(Join(name))

ParseReportNames(lines) ==
    UNION {ReportMatch(lines[i]) : i \in 1..Len(lines)}

ConfigCmd == <<command, "rc.confirmation=off", "rc.hooks=0", "_config">>

\* a variant of line 36 written with `<=`
\* a variant of the cache test that never takes the cache for valid
CacheValidNever(cache, cache_time, t) == FALSE

CacheValidInclusive(cache, cache_time, t) ==
    cache # None /\ (t - cache_time) <= report_cache_ttl

\* lines 34-37
CacheValid(cache, cache_time, t) ==
    cache # None /\ (t - cache_time) < report_cache_ttl

NoError == [kind |-> "", returncode |-> 0, cmd |-> <<>>, output |-> ""]

CalledProcessError(rc, cmd, output) ==
    [kind |-> "CalledProcessError", returncode |-> rc, cmd |-> cmd,
     output |-> output]

Call(cmd, rc, err) == [cmd |-> cmd, returncode |-> rc, stderr |-> err]

\* a variant of lines 46-61 that caches an empty set when the engine fails
ReportNamesCacheOnFailure(cache, cache_time, t, rc, out, err) ==
    IF cache # None /\ (t - cache_time) < report_cache_ttl
    THEN [calls |-> <<>>, raised |-> FALSE, error |-> NoError,
          names |-> TheValue(cache), cache |-> cache, time |-> cache_time]
    ELSE [calls |-> <<Call(ConfigCmd, rc, err)>>, raised |-> rc # 0,
          error |-> IF rc # 0 THEN CalledProcessError(rc, ConfigCmd, err)
                    ELSE NoError,
          names |-> IF rc # 0 THEN {} ELSE ParseReportNames(out),
          cache |-> Some(IF rc # 0 THEN {} ELSE ParseReportNames(out)),
          time |-> t]

\* One run of get_report_names at time t, the engine answering (rc, out, err)
\* if it is asked: the invocations made, whether it raised, the set returned
\* and the cache afterwards.
ReportNames(cache, cache_time, t, rc, out, err) ==
    IF CacheValid(cache, cache_time, t)
    THEN [calls |-> <<>>, raised |-> FALSE, error |-> NoError,
          names |-> TheValue(cache), cache |-> cache, time |-> cache_time]
    ELSE IF rc # 0
    THEN [calls |-> <<Call(ConfigCmd, rc, err)>>, raised |-> TRUE,
          error |-> CalledProcessError(rc, ConfigCmd, err),
          names |-> {}, cache |-> cache, time |-> cache_time]
    ELSE LET report_names == ParseReportNames(out)
         IN  [calls |-> <<Call(ConfigCmd, rc, err)>>, raised |-> FALSE,
              error |-> NoError, names |-> report_names,
              cache |-> Some(report_names), time |-> t]

\* The answers (returncode, stdout, stderr) the engine can give to `_config`.
\* The code reads the stdout of a successful run and the stderr of a failed
\* one only, so the other stream is left empty.  One answer when not asked.
ConfigAnswers(asked) ==
    IF asked
    THEN {<<0, out, "">> : out \in ConfigOutputs}
         \cup {<<rc, <<>>, err>> : rc \in ReturnCodes \ {0}, err \in Stderrs}
    ELSE {<<0, <<>>, "">>}

\* The value an operation returns.  type says which Python value it is:
\* "set" (names), "list" (tasks), "dict" (a JSON object), "bool" (success)
\* or "pair" (success, text).
NoValue ==
    [type |-> "none", names |-> {}, tasks |-> <<>>, success |-> FALSE,
     text |-> ""]

Result(op, outcome, error, value) ==
    [op |-> op, outcome |-> outcome, error |-> error, value |-> value]

get_report_names ==
    \E a \in ConfigAnswers(~CacheValid(report_cache, report_cache_time, now)) :
        LET r == ReportNames(report_cache, report_cache_time, now,
                             a[1], a[2], a[3])
        IN  /\ running = None
            /\ report_cache' = r.cache
            /\ report_cache_time' = r.time
            /\ calls' = r.calls
            /\ last' = Result("get_report_names",
                              IF r.raised THEN "raise" ELSE "return",
                              r.error,
                              IF r.raised THEN NoValue
                              ELSE [NoValue EXCEPT !.type = "set",
                                                   !.names = r.names])
            /\ UNCHANGED <<now, request, running>>
            /\ UNCHANGED appvars

\* subprocess.run has not returned: no adapter operation has an outcome
Waiting == Result("subprocess.run", "waiting", NoError, NoValue)

\* lines 40-44 when the engine process never exits: subprocess.run is given
\* no timeout and waits for it
get_report_names_waits ==
    /\ running = None
    /\ ~CacheValid(report_cache, report_cache_time, now)
    /\ running' = Some(ConfigCmd)
    /\ calls' = <<>>
    /\ last' = Waiting
    /\ UNCHANGED <<report_cache, report_cache_time, now, request>>
    /\ UNCHANGED appvars

----------------------------------------------------------------------------
(* get_tasks *)

\* a variant of line 85 written `(filter_or_report or "").strip()`
NormalizeNoneAsEmpty(filter_or_report) ==
    IF filter_or_report = None THEN <<>>
    ELSE strip(TheValue(filter_or_report))

\* line 85: None becomes "next", anything else is stripped
Normalize(filter_or_report) ==
    IF filter_or_report = None THEN <<"next">>
    ELSE strip(TheValue(filter_or_report))

\* a variant of line 88 written `normalized.split(" ")`, which yields [""]
\* for the empty string
TokenizeSplitSpace(normalized) ==
    IF normalized # <<>> THEN split(normalized) ELSE <<"">>

\* line 88
Tokenize(normalized) ==
    IF normalized # <<>> THEN split(normalized) ELSE <<>>

\* a variant of lines 97-105 that takes the first token that is a report
\* name, wherever it stands
ResolveAnyToken(tokens, report_names) ==
    IF \E i \in 1..Len(tokens) : tokens[i] \in report_names
    THEN LET i == CHOOSE k \in 1..Len(tokens) :
                      /\ tokens[k] \in report_names
                      /\ \A j \in 1..(k - 1) : tokens[j] \notin report_names
         IN  [report |-> Some(tokens[i]),
              filter_tokens |-> SubSeq(tokens, 1, i - 1)
                                \o SubSeq(tokens, i + 1, Len(tokens))]
    ELSE [report |-> None, filter_tokens |-> tokens]

\* lines 91-105: the report (or None) and the filter tokens
Resolve(tokens, report_names) ==
    IF tokens = <<>>
    THEN [report |-> None, filter_tokens |-> <<>>]
    ELSE LET maybe_report == tokens[Len(tokens)]
         IN  IF maybe_report \in report_names
             THEN [report |-> Some(maybe_report),
                   filter_tokens |-> SubSeq(tokens, 1, Len(tokens) - 1)]
             ELSE [report |-> None, filter_tokens |-> tokens]

\* a variant of lines 112-114 that appends the filter tokens after the report
ExportCmdFiltersLast(normalized, tokens, report, filter_tokens) ==
    LET cmd == <<command, "rc.confirmation=off", "rc.hooks=0">>
    IN  IF report # None /\ TheValue(report) # ""
        THEN cmd \o <<"export", TheValue(report)>> \o filter_tokens
        ELSE IF normalized # <<>>
        THEN cmd \o tokens \o <<"export">>
        ELSE cmd \o <<"export">>

\* lines 108-121: the export command
ExportCmd(normalized, tokens, report, filter_tokens) ==
    LET cmd == <<command, "rc.confirmation=off", "rc.hooks=0">>
    IN  IF report # None /\ TheValue(report) # ""
        THEN cmd \o filter_tokens \o <<"export", TheValue(report)>>
        ELSE IF normalized # <<>>
        THEN cmd \o tokens \o <<"export">>
        ELSE cmd \o <<"export">>

JSONDecodeError ==
    [kind |-> "JSONDecodeError", returncode |-> 0, cmd |-> <<>>, output |-> ""]

\* the answers (returncode, parsed stdout, stderr) the engine can give to an
\* export; as for `_config`, the stream the code does not read is left empty
ExportAnswers ==
    {<<0, out, "">> : out \in ExportOutputs}
    \cup {<<rc, None, err>> : rc \in ReturnCodes \ {0}, err \in Stderrs}

\* a variant of lines 129-132 without the returncode test
ExportIgnoringReturnCode(cmd, rc, out, err) ==
    IF out = None
    THEN [outcome |-> "raise", error |-> JSONDecodeError, value |-> NoValue]
    ELSE [outcome |-> "return", error |-> NoError,
          value |-> [NoValue EXCEPT
                        !.type = IF TheValue(out).kind = "list"
                                 THEN "list" ELSE "dict",
                        !.tasks = TheValue(out).items]]

\* lines 123-132: run the export and parse its output
Export(cmd, rc, out, err) ==
    IF rc # 0
    THEN [outcome |-> "raise", error |-> CalledProcessError(rc, cmd, err),
          value |-> NoValue]
    ELSE IF out = None
    THEN [outcome |-> "raise", error |-> JSONDecodeError, value |-> NoValue]
    ELSE [outcome |-> "return", error |-> NoError,
          value |-> [NoValue EXCEPT
                        !.type = IF TheValue(out).kind = "list"
                                 THEN "list" ELSE "dict",
                        !.tasks = TheValue(out).items]]

GetTasks(filter_or_report) ==
    LET normalized == Normalize(filter_or_report)
        tokens     == Tokenize(normalized)
        valid      == CacheValid(report_cache, report_cache_time, now)
    IN  \E a \in ConfigAnswers(tokens # <<>> /\ ~valid) :
            LET r == IF tokens # <<>>
                     THEN ReportNames(report_cache, report_cache_time, now,
                                      a[1], a[2], a[3])
                     ELSE [calls |-> <<>>, raised |-> FALSE,
                           error |-> NoError, names |-> {},
                           cache |-> report_cache,
                           time |-> report_cache_time]
            IN  /\ running = None
                /\ report_cache' = r.cache
                /\ report_cache_time' = r.time
                /\ UNCHANGED <<now, request, running>>
                /\ IF r.raised
                   THEN /\ calls' = r.calls
                        /\ last' = Result("get_tasks", "raise", r.error,
                                          NoValue)
                   ELSE \E e \in ExportAnswers :
                           LET res == Resolve(tokens, r.names)
                               cmd == ExportCmd(normalized, tokens,
                                                res.report,
                                                res.filter_tokens)
                               x   == Export(cmd, e[1], e[2], e[3])
                           IN  /\ calls' = Append(r.calls,
                                                  Call(cmd, e[1], e[3]))
                               /\ last' = Result("get_tasks", x.outcome,
                                                 x.error, x.value)

get_tasks ==
    /\ request.op = "get_tasks"
    /\ GetTasks(request.filter_or_report)
    /\ UNCHANGED appvars

\* lines 91 and 123-127 when the engine process never exits: the lookup
\* (lines 40-44) or the export waits for it
get_tasks_waits ==
    LET normalized == Normalize(request.filter_or_report)
        tokens     == Tokenize(normalized)
        valid      == CacheValid(report_cache, report_cache_time, now)
    IN  /\ request.op = "get_tasks"
        /\ running = None
        /\ last' = Waiting
        /\ UNCHANGED <<now, request>>
        /\ UNCHANGED appvars
        /\ \/ /\ tokens # <<>> /\ ~valid
              /\ running' = Some(ConfigCmd)
              /\ calls' = <<>>
              /\ UNCHANGED <<report_cache, report_cache_time>>
           \/ \E a \in ConfigAnswers(tokens # <<>> /\ ~valid) :
                 LET r == IF tokens # <<>>
                          THEN ReportNames(report_cache, report_cache_time,
                                           now, a[1], a[2], a[3])
                          ELSE [calls |-> <<>>, raised |-> FALSE,
                                error |-> NoError, names |-> {},
                                cache |-> report_cache,
                                time |-> report_cache_time]
                     res == Resolve(tokens, r.names)
                 IN  /\ ~r.raised
                     /\ running' = Some(ExportCmd(normalized, tokens,
                                                  res.report,
                                                  res.filter_tokens))
                     /\ calls' = r.calls
                     /\ report_cache' = r.cache
                     /\ report_cache_time' = r.time

----------------------------------------------------------------------------
(* modify_task *)

Uuids == {"u1", "u2"}

ModKeys == {"scheduled", "due"}

ModValues == {"", "tomorrow"}

\* the keyword arguments of a call, in the order given: no key twice
Modifications ==
    {m \in StringsUpTo(ModKeys \X ModValues, MaxMods) :
        \A i, j \in 1..Len(m) : i # j => m[i][1] # m[j][1]}

\* a variant of lines 153-154 that skips the items whose value is empty
RECURSIVE ModArgsSkipEmpty(_)
ModArgsSkipEmpty(mods) ==
    IF mods = <<>> THEN <<>>
    ELSE (IF Head(mods)[2] = "" THEN <<>>
          ELSE <<Head(mods)[1] \o ":" \o Head(mods)[2]>>)
         \o ModArgsSkipEmpty(Tail(mods))

\* line 154: f"{key}:{value}" for every item
RECURSIVE ModArgs(_)
ModArgs(mods) ==
    IF mods = <<>> THEN <<>>
    ELSE <<Head(mods)[1] \o ":" \o Head(mods)[2]>> \o ModArgs(Tail(mods))

\* lines 146-154
ModifyCmd(uuid, mods) ==
    <<command, "rc.confirmation=off", "rc.hooks=0", "uuid:" \o uuid, "modify">>
    \o ModArgs(mods)

\* line 162: the value returned
ModifyResult(rc, err) ==
    [NoValue EXCEPT !.type = "bool", !.success = (rc = 0)]

\* a variant of modify_task that drops the cached report names
modify_task_invalidating ==
    /\ request.op = "modify_task"
    /\ running = None
    /\ \E rc \in ReturnCodes, err \in Stderrs :
        /\ calls' = <<Call(ModifyCmd(request.uuid, request.modifications),
                           rc, err)>>
        /\ last' = Result("modify_task", "return", NoError,
                          ModifyResult(rc, err))
        /\ report_cache' = None
        /\ UNCHANGED <<report_cache_time, now, request, running>>
        /\ UNCHANGED appvars

modify_task ==
    /\ request.op = "modify_task"
    /\ running = None
    /\ \E rc \in ReturnCodes, err \in Stderrs :
        /\ calls' = <<Call(ModifyCmd(request.uuid, request.modifications),
                           rc, err)>>
        /\ last' = Result("modify_task", "return", NoError,
                          ModifyResult(rc, err))
        /\ UNCHANGED <<report_cache, report_cache_time, now, request, running>>
        /\ UNCHANGED appvars

\* lines 156-160 when the engine process never exits
modify_task_waits ==
    /\ request.op = "modify_task"
    /\ running = None
    /\ running' = Some(ModifyCmd(request.uuid, request.modifications))
    /\ calls' = <<>>
    /\ last' = Waiting
    /\ UNCHANGED <<report_cache, report_cache_time, now, request>>
    /\ UNCHANGED appvars

----------------------------------------------------------------------------
(* The calls made on the client.  A behaviour follows one client that is  *)
(* asked, at any times, for its report names and for one call drawn here. *)

Request(op, filter_or_report, uuid, mods) ==
    [op |-> op, filter_or_report |-> filter_or_report, uuid |-> uuid,
     modifications |-> mods]

Requests ==
    {Request("get_tasks", f, "", <<>>) : f \in FilterArgs}
    \cup {Request("modify_task", None, u, m) : u \in Uuids, m \in Modifications}

----------------------------------------------------------------------------
(* The clock *)

TickSteps ==
    {report_cache_ttl \div 2, report_cache_ttl - report_cache_ttl \div 2}

Tick ==
    \E d \in TickSteps :
        /\ running = None
        /\ now + d <= StartTime + Horizon
        /\ now' = now + d
        /\ UNCHANGED <<report_cache, report_cache_time, request, calls, last,
                       running>>
        /\ UNCHANGED appvars

----------------------------------------------------------------------------
(* The application: configuration, date fields and the task table *)

\* DEFAULT_CONFIG["hotkeys"]: the keys that have an entry, and their values
HotkeyKeys == <<"1", "2", "3", "4", "5">>

HotkeyValues == <<"tomorrow", "+2d", "+3d", "sow", "som">>

hotkeys ==
    [k \in {HotkeyKeys[i] : i \in 1..Len(HotkeyKeys)} |->
        HotkeyValues[CHOOSE i \in 1..Len(HotkeyKeys) : HotkeyKeys[i] = k]]

\* the schedule keys pressed: two that are configured, one that is not
PressedKeys == {"1", "4", "9"}

\* DEFAULT_CONFIG["default_date_fields"]
default_date_fields == {"scheduled"}

\* DEFAULT_CONFIG["default_report"]
default_report == <<"next">>

\* the date fields, in sorted order
DateFields == <<"due", "scheduled", "wait">>

\* a variant of get_active that lists the fields in the order of the keys
\* W, S, D
get_active_in_key_order(active) ==
    SelectSeq(<<"wait", "scheduled", "due">>, LAMBDA f : f \in active)

\* DateFieldManager.get_active(): the active names, sorted
get_active(active) == SelectSeq(DateFields, LAMBDA f : f \in active)

\* DateFieldManager(initial_fields): the membership the list supplies, no
\* membership when there is no argument
DateFieldManager(initial_fields) ==
    IF initial_fields = None THEN {}
    ELSE {TheValue(initial_fields)[i] :
             i \in 1..Len(TheValue(initial_fields))}

\* DateFieldManager.toggle(field): flips the membership of field
toggle(active, field) ==
    IF field \in active THEN active \ {field} ELSE active \cup {field}

\* format_date(date_str, relative=False) on the dates of the task records
format_date(date_str) ==
    CASE date_str = "" \/ date_str = "-"   -> "-"
      [] date_str = "20260206T000000Z"     -> "Fri 06-02-2026"
      [] date_str = "20260101T000000Z"     -> "Thu 01-01-2026"
      [] OTHER                             -> date_str

\* the ID cell of a row: the text, with the selection marker in front or not
IdCell(marker, text) == [marker |-> marker, text |-> text]

Row(key, id, description, project, scheduled, due) ==
    [key |-> key, id |-> id, description |-> description,
     project |-> project, scheduled |-> scheduled, due |-> due]

\* _build_row_data and add_row(*row_data, key=task_uuid)
BuildRow(task) ==
    Row(task.uuid, IdCell(FALSE, ToString(task.id)), task.description,
        task.project, format_date(task.scheduled), format_date(task.due))

\* add_row("", "No tasks", "", "", "", "", key="empty")
EmptyRow == Row("empty", IdCell(FALSE, ""), "No tasks", "", "", "")

\* add_row("", f"Error: {str(e)}", "", "", "", "", key="error")
ErrorRow(error) ==
    Row("error", IdCell(FALSE, ""), "Error: " \o error.kind, "", "", "")

\* the rows added for a snapshot: one per task that has a uuid, in order
RECURSIVE TaskRows(_)
TaskRows(snapshot) ==
    IF snapshot = <<>> THEN <<>>
    ELSE (IF Head(snapshot).uuid = "" THEN <<>>
          ELSE <<BuildRow(Head(snapshot))>>)
         \o TaskRows(Tail(snapshot))

\* table.update_cell(row_key, "id", value): the row with that key gets the
\* cell; a key the table lacks raises, which _update_row_styling swallows
UpdateIdCell(table, row_key, cell) ==
    [i \in 1..Len(table) |->
        IF table[i].key = row_key THEN [table[i] EXCEPT !.id = cell]
        ELSE table[i]]

\* _update_row_styling(task_uuid, task_id)
UpdateRowStyling(table, selected, task_uuid, task_id) ==
    UpdateIdCell(table, task_uuid, IdCell(task_uuid \in selected, task_id))

\* _update_row_styling for every task of the snapshot that has a uuid
RECURSIVE RestyleAll(_, _, _)
RestyleAll(table, selected, snapshot) ==
    IF snapshot = <<>> THEN table
    ELSE RestyleAll(
            IF Head(snapshot).uuid = "" THEN table
            ELSE UpdateRowStyling(table, selected, Head(snapshot).uuid,
                                  ToString(Head(snapshot).id)),
            selected, Tail(snapshot))

SORT_MODES == <<"default", "project", "scheduled", "due", "description">>

\* the cell texts of the table in ascending order of Python's str comparison
CellOrder ==
    <<"", "-", "Fri 06-02-2026", "Thu 01-01-2026", "buy milk",
      "call back", "home", "work", "write report", "zzz">>

CellRank(text) == CHOOSE i \in 1..Len(CellOrder) : CellOrder[i] = text

\* the sort key _apply_sort gives a row in a mode
SortKey(row, mode) ==
    CASE mode = "project"     -> CellRank(row.project)
      [] mode = "scheduled"   -> CellRank(IF row.scheduled = "" THEN "zzz"
                                          ELSE row.scheduled)
      [] mode = "due"         -> CellRank(IF row.due = "" THEN "zzz"
                                          ELSE row.due)
      [] mode = "description" -> CellRank(row.description)
      [] OTHER                -> 0

\* row put into a table that is sorted by the mode, after the rows whose key
\* is not greater: the sort is stable
RECURSIVE InsertSorted(_, _, _)
InsertSorted(table, row, mode) ==
    IF table = <<>> THEN <<row>>
    ELSE IF SortKey(row, mode) < SortKey(Head(table), mode)
    THEN <<row>> \o table
    ELSE <<Head(table)>> \o InsertSorted(Tail(table), row, mode)

RECURSIVE SortRows(_, _)
SortRows(table, mode) ==
    IF table = <<>> THEN <<>>
    ELSE InsertSorted(SortRows(SubSeq(table, 1, Len(table) - 1), mode),
                      table[Len(table)], mode)

\* _apply_sort(table)
ApplySort(table, mode) ==
    IF mode = "default" THEN table ELSE SortRows(table, mode)

Min(a, b) == IF a < b THEN a ELSE b

----------------------------------------------------------------------------
(* The application: handlers *)

\* What a handler reported and asked of the adapter: the hotkey pressed, the
\* active fields and the targets it worked with, the error notifications it
\* showed itself, the modify_task calls it made, how many fetches it issued
\* and the error notifications of refresh_tasks.
Handler(name, hotkey, active, targets, errors, modify, fetches, refresh) ==
    [name |-> name, hotkey |-> hotkey, active |-> active,
     targets |-> targets, errors |-> errors, modify |-> modify,
     fetches |-> fetches, refresh |-> refresh]

\* no batch handler and no fetch ran in the last step
Idle == Handler("", "", <<>>, <<>>, <<>>, <<>>, 0, <<>>)

\* no adapter operation ran in the last step
NoOperation == Result("init", "none", NoError, NoValue)

\* the app is mounted, runs, and waits for a key
Ready == columns_added /\ escaped = "" /\ running = None

\* a handler that asks nothing of the adapter
NoAdapterCall ==
    /\ calls' = <<>>
    /\ last' = NoOperation
    /\ UNCHANGED <<report_cache, report_cache_time, now, request, running>>

\* the sequences that hold every member of S once: the orders list(S) can have
Orderings(S) ==
    {s \in [1..Cardinality(S) -> S] :
        \A i, j \in 1..Cardinality(S) : i # j => s[i] # s[j]}

\* get_selected_tasks (lines 289-308): the lists it can return
get_selected_tasks(selected, snapshot, table, cursor) ==
    IF selected # {} THEN Orderings(selected)
    ELSE IF Len(table) = 0 THEN {<<>>}
    ELSE IF cursor \notin 0..(Len(table) - 1) THEN {<<>>}
    ELSE IF cursor < Len(snapshot) /\ snapshot[cursor + 1].uuid # ""
    THEN {<<snapshot[cursor + 1].uuid>>}
    ELSE {<<>>}

\* the text of the exception refresh_tasks and on_mount show
ErrorText(error) == error.kind

\* a variant of lines 330-358 that clears the table before it fetches
FetchFilterIntoClearedTable(filter, table, mode, mounting) ==
    /\ GetTasks(Some(filter))
    /\ IF last'.outcome = "return"
       THEN LET snapshot       == last'.value.tasks
                old_cursor_row == IF Len(table) > 0 THEN cursor_row ELSE 0
                added          == IF mounting THEN TaskRows(snapshot)
                                  ELSE ApplySort(TaskRows(snapshot), mode)
            IN  /\ tasks' = snapshot
                /\ rows' = IF snapshot # <<>> THEN added ELSE <<EmptyRow>>
                /\ cursor_row' =
                      IF snapshot # <<>> /\ Len(added) > 0 /\ ~mounting
                      THEN Min(old_cursor_row, Len(added) - 1)
                      ELSE 0
       ELSE /\ tasks' = tasks
            /\ rows' = IF mounting THEN <<ErrorRow(last'.error)>> ELSE <<>>
            /\ cursor_row' = 0

\* lines 208-223 and 336-355: fetch the current filter and rebuild the table.
\* A failed fetch leaves the snapshot and the table (here `table`) alone.
FetchFilterInto(filter, table, mode, mounting) ==
    /\ GetTasks(Some(filter))
    /\ IF last'.outcome = "return"
       THEN LET snapshot       == last'.value.tasks
                old_cursor_row == IF Len(table) > 0 THEN cursor_row ELSE 0
                added          == IF mounting THEN TaskRows(snapshot)
                                  ELSE ApplySort(TaskRows(snapshot), mode)
            IN  /\ tasks' = snapshot
                /\ rows' = IF snapshot # <<>> THEN added ELSE <<EmptyRow>>
                /\ cursor_row' =
                      IF snapshot # <<>> /\ Len(added) > 0 /\ ~mounting
                      THEN Min(old_cursor_row, Len(added) - 1)
                      ELSE 0
       ELSE /\ tasks' = tasks
            /\ rows' = IF mounting THEN <<ErrorRow(last'.error)>> ELSE table
            /\ cursor_row' = cursor_row

\* the fetch of on_mount and of a refresh that keeps the current filter
FetchInto(table, mode, mounting) ==
    FetchFilterInto(current_filter, table, mode, mounting)

\* a variant of refresh_tasks that drops the uuids the new snapshot lacks
\* from the selection set
refresh_tasks_pruning(filter, table, mode, selected) ==
    /\ FetchFilterInto(filter, table, mode, FALSE)
    /\ selected_tasks' = selected \cap {tasks'[i].uuid : i \in 1..Len(tasks')}

\* refresh_tasks (lines 330-358) with self.current_filter = filter, the
\* table, self.sort_mode = mode and self.selected_tasks = selected: it
\* assigns the snapshot and the table, and nothing to the selection set
refresh_tasks(filter, table, mode, selected) ==
    /\ FetchFilterInto(filter, table, mode, FALSE)
    /\ selected_tasks' = selected

\* the notification of refresh_tasks when the fetch of this step failed
RefreshErrors ==
    IF last'.outcome = "raise"
    THEN <<"Error refreshing tasks: " \o ErrorText(last'.error)>>
    ELSE <<>>

on_mount ==
    /\ ~columns_added
    /\ escaped = ""
    /\ columns_added' = TRUE
    /\ FetchInto(rows, sort_mode, TRUE)
    /\ handler' = Handler("on_mount", "", <<>>, <<>>, <<>>, <<>>, 1, <<>>)
    /\ UNCHANGED <<selected_tasks, active_fields, sort_mode, current_filter,
                   escaped>>

action_cursor_down ==
    /\ Ready
    /\ cursor_row' = IF cursor_row + 1 < Len(rows) THEN cursor_row + 1
                     ELSE cursor_row
    /\ handler' = Idle
    /\ NoAdapterCall
    /\ UNCHANGED <<columns_added, tasks, rows, selected_tasks, active_fields,
                   sort_mode, current_filter, escaped>>

action_cursor_up ==
    /\ Ready
    /\ cursor_row' = IF cursor_row > 0 THEN cursor_row - 1 ELSE cursor_row
    /\ handler' = Idle
    /\ NoAdapterCall
    /\ UNCHANGED <<columns_added, tasks, rows, selected_tasks, active_fields,
                   sort_mode, current_filter, escaped>>

\* a variant of lines 244-247 that adds the uuid and never removes it
ToggleSelectedAddOnly(selected, task_uuid) == selected \cup {task_uuid}

\* lines 244-247: the selection set after the toggle of a uuid
ToggleSelected(selected, task_uuid) ==
    IF task_uuid \in selected THEN selected \ {task_uuid}
    ELSE selected \cup {task_uuid}

\* lines 229-242: the task action_toggle_selection works on, if it finds one
ToggledTask ==
    IF /\ Len(rows) # 0
       /\ cursor_row \in 0..(Len(rows) - 1)
       /\ cursor_row < Len(tasks)
       /\ tasks[cursor_row + 1].uuid # ""
    THEN {tasks[cursor_row + 1]}
    ELSE {}

action_toggle_selection ==
    /\ Ready
    /\ IF ToggledTask # {}
       THEN LET task      == tasks[cursor_row + 1]
                task_uuid == task.uuid
                selected  == ToggleSelected(selected_tasks, task_uuid)
            IN  /\ selected_tasks' = selected
                /\ rows' = UpdateRowStyling(rows, selected, task_uuid,
                                            ToString(task.id))
       ELSE UNCHANGED <<selected_tasks, rows>>
    /\ handler' = Idle
    /\ NoAdapterCall
    /\ UNCHANGED <<columns_added, tasks, cursor_row, active_fields, sort_mode,
                   current_filter, escaped>>

\* a variant of lines 254-257 that starts from an empty set
SelectAllReplacing(selected, snapshot) ==
    {snapshot[i].uuid : i \in {k \in 1..Len(snapshot) :
                                    snapshot[k].uuid # ""}}

\* lines 254-257: every uuid of the snapshot added to the selection set
SelectAll(selected, snapshot) ==
    selected
    \cup {snapshot[i].uuid : i \in {k \in 1..Len(snapshot) :
                                          snapshot[k].uuid # ""}}

action_select_all ==
    /\ Ready
    /\ selected_tasks' = SelectAll(selected_tasks, tasks)
    /\ rows' = RestyleAll(rows, selected_tasks', tasks)
    /\ handler' = Idle
    /\ NoAdapterCall
    /\ UNCHANGED <<columns_added, tasks, cursor_row, active_fields, sort_mode,
                   current_filter, escaped>>

\* a variant of lines 312-317 that drops the uuids of the snapshot only
clear_selection_of_snapshot(selected, table, snapshot) ==
    LET kept == selected \ {snapshot[i].uuid : i \in 1..Len(snapshot)}
    IN  [selected |-> kept, rows |-> RestyleAll(table, kept, snapshot)]

\* clear_selection (lines 310-317): the selection set and the table after it
clear_selection(selected, table, snapshot) ==
    [selected |-> {}, rows |-> RestyleAll(table, {}, snapshot)]

\* clear_selection through the x key
action_clear_all_selection ==
    /\ Ready
    /\ selected_tasks' = clear_selection(selected_tasks, rows, tasks).selected
    /\ rows' = clear_selection(selected_tasks, rows, tasks).rows
    /\ handler' = Handler("clear_selection", "", <<>>, <<>>, <<>>, <<>>, 0,
                          <<>>)
    /\ NoAdapterCall
    /\ UNCHANGED <<columns_added, tasks, cursor_row, active_fields, sort_mode,
                   current_filter, escaped>>

\* a variant of lines 364-377 in which a key only switches its field on
action_toggle_on(field) ==
    /\ Ready
    /\ active_fields' = active_fields \cup {field}
    /\ handler' = Idle
    /\ NoAdapterCall
    /\ UNCHANGED <<columns_added, tasks, rows, cursor_row, selected_tasks,
                   sort_mode, current_filter, escaped>>

\* action_toggle_wait, action_toggle_scheduled and action_toggle_due
action_toggle(field) ==
    /\ Ready
    /\ active_fields' = toggle(active_fields, field)
    /\ handler' = Idle
    /\ NoAdapterCall
    /\ UNCHANGED <<columns_added, tasks, rows, cursor_row, selected_tasks,
                   sort_mode, current_filter, escaped>>

action_toggle_wait == action_toggle("wait")

action_toggle_scheduled == action_toggle("scheduled")

action_toggle_due == action_toggle("due")

action_cycle_sort ==
    LET current_idx == CHOOSE i \in 1..Len(SORT_MODES) :
                          SORT_MODES[i] = sort_mode
        mode        == SORT_MODES[(current_idx % Len(SORT_MODES)) + 1]
    IN  /\ Ready
        /\ sort_mode' = mode
        /\ IF mode = "default"
           THEN /\ refresh_tasks(current_filter, rows, mode, selected_tasks)
                /\ handler' = Handler("refresh_tasks", "", <<>>, <<>>,
                                      <<>>, <<>>, 1, RefreshErrors)
           ELSE /\ rows' = ApplySort(rows, mode)
                /\ handler' = Idle
                /\ NoAdapterCall
                /\ UNCHANGED <<tasks, cursor_row, selected_tasks>>
        /\ UNCHANGED <<columns_added, active_fields, current_filter,
                       escaped>>

\* what the filter prompt is dismissed with: None on escape, the text of the
\* input on enter
PromptResults == {None, Some(<<>>), Some(<<"p:w">>)}

\* a variant of lines 522-526 that tests `if result:`, which takes the empty
\* string for a cancellation
on_report_result_if_truthy(result) ==
    /\ IF result # None /\ result # Some(<<>>)
       THEN /\ current_filter' = TheValue(result)
            /\ refresh_tasks(TheValue(result), rows, sort_mode,
                             selected_tasks)
            /\ handler' = Handler("change_filter", "", <<>>, <<>>, <<>>,
                                  <<>>, 1, RefreshErrors)
       ELSE /\ handler' = Handler("change_filter", "", <<>>, <<>>, <<>>,
                                  <<>>, 0, <<>>)
            /\ NoAdapterCall
            /\ UNCHANGED <<tasks, rows, cursor_row, selected_tasks,
                           current_filter>>
    /\ UNCHANGED <<columns_added, active_fields, sort_mode, escaped>>

\* on_report_result(result), the callback of the prompt (lines 522-526)
on_report_result(result) ==
    /\ IF result # None
       THEN /\ current_filter' = TheValue(result)
            /\ refresh_tasks(TheValue(result), rows, sort_mode,
                             selected_tasks)
            /\ handler' = Handler("change_filter", "", <<>>, <<>>, <<>>,
                                  <<>>, 1, RefreshErrors)
       ELSE /\ handler' = Handler("change_filter", "", <<>>, <<>>, <<>>,
                                  <<>>, 0, <<>>)
            /\ NoAdapterCall
            /\ UNCHANGED <<tasks, rows, cursor_row, selected_tasks,
                           current_filter>>
    /\ UNCHANGED <<columns_added, active_fields, sort_mode, escaped>>

\* action_change_filter (lines 521-528): the prompt and its callback
action_change_filter ==
    /\ Ready
    /\ \E result \in PromptResults : on_report_result(result)

----------------------------------------------------------------------------
(* The application: batch schedule and batch clear *)

\* {field: value for field in fields}, in the order of the fields
FieldMap(fields, value) == [i \in 1..Len(fields) |-> <<fields[i], value>>]

\* one self.tw_client.modify_task(uuid, **modifications) of a batch
ModifyCall(uuid, mods, rc, err) ==
    [uuid |-> uuid, modifications |-> mods, returncode |-> rc, stderr |-> err]

\* `success, stderr = value`: a value that is no pair cannot be unpacked
Unpack(value) ==
    IF value.type = "pair"
    THEN [exception |-> "", success |-> value.success, stderr |-> value.text]
    ELSE [exception |-> "TypeError", success |-> FALSE, stderr |-> ""]

\* The loop of lines 389-401 and 450-460 over the uuids, the engine answering
\* the i-th call with answers[i]: the calls made, the errors shown, and the
\* exception that ended the loop ("" when it ran to its end).  The two texts
\* are the error messages with and without a stderr; uuid[:8] is the whole
\* uuid for the uuids of the model.
RECURSIVE ModifyEach(_, _, _, _, _)
ModifyEach(uuids, mods, answers, with_stderr, without_stderr) ==
    IF uuids = <<>>
    THEN [modify |-> <<>>, errors |-> <<>>, exception |-> "",
          value |-> NoValue]
    ELSE LET uuid     == Head(uuids)
             rc       == Head(answers)[1]
             err      == Head(answers)[2]
             value    == ModifyResult(rc, err)
             unpacked == Unpack(value)
         IN  IF unpacked.exception # ""
             THEN [modify |-> <<ModifyCall(uuid, mods, rc, err)>>,
                   errors |-> <<>>, exception |-> unpacked.exception,
                   value |-> value]
             ELSE LET rest == ModifyEach(Tail(uuids), mods, Tail(answers),
                                         with_stderr, without_stderr)
                  IN  [modify |-> <<ModifyCall(uuid, mods, rc, err)>>
                                  \o rest.modify,
                       errors |-> (IF unpacked.success THEN <<>>
                                   ELSE IF unpacked.stderr # ""
                                   THEN <<with_stderr \o unpacked.stderr>>
                                   ELSE <<without_stderr \o uuid>>)
                                  \o rest.errors,
                       exception |-> rest.exception,
                       value |-> IF rest.modify = <<>> THEN value
                                 ELSE rest.value]

\* a variant of lines 434-448 that looks at the targets before the fields
SchedulePreconditionTargetsFirst(hotkey, active, targets) ==
    IF hotkey \notin DOMAIN hotkeys
    THEN "Hotkey " \o hotkey \o " not configured"
    ELSE IF targets = <<>>
    THEN "No tasks selected"
    ELSE IF active = <<>>
    THEN "No active date fields. Use W/S/D to toggle."
    ELSE ""

\* a variant of lines 434-448 that looks up the hotkey last
SchedulePreconditionHotkeyLast(hotkey, active, targets) ==
    IF active = <<>>
    THEN "No active date fields. Use W/S/D to toggle."
    ELSE IF targets = <<>>
    THEN "No tasks selected"
    ELSE IF hotkey \notin DOMAIN hotkeys
    THEN "Hotkey " \o hotkey \o " not configured"
    ELSE ""

\* lines 434-448: the error _schedule_with_hotkey returns with, "" when it
\* goes on to the loop
SchedulePrecondition(hotkey, active, targets) ==
    IF hotkey \notin DOMAIN hotkeys
    THEN "Hotkey " \o hotkey \o " not configured"
    ELSE IF active = <<>>
    THEN "No active date fields. Use W/S/D to toggle."
    ELSE IF targets = <<>>
    THEN "No tasks selected"
    ELSE ""

\* a variant of lines 380-387 without the test of the targets
ClearPreconditionNoTargetTest(active, targets) ==
    IF active = <<>>
    THEN "No active date fields to clear"
    ELSE ""

\* lines 380-387: the error action_clear_date returns with, "" when it goes
\* on to the loop
ClearPrecondition(active, targets) ==
    IF active = <<>>
    THEN "No active date fields to clear"
    ELSE IF targets = <<>>
    THEN "No tasks selected"
    ELSE ""

\* A batch handler after its precondition tests gave `error`: it shows the
\* error and returns, or runs the loop, clears the selection and refreshes.
\* An exception of the loop leaves the handler and ends the app.  texts are
\* the messages of a failed call, with and without a stderr.
Batch(name, hotkey, active, targets, error, value, texts) ==
    IF error # ""
    THEN /\ handler' = Handler(name, hotkey, active, <<>>, <<error>>, <<>>, 0,
                               <<>>)
         /\ NoAdapterCall
         /\ UNCHANGED <<columns_added, tasks, rows, cursor_row,
                        selected_tasks, active_fields, sort_mode,
                        current_filter, escaped>>
    ELSE \E answers \in [1..Len(targets) -> ReturnCodes \X Stderrs] :
            LET mods == FieldMap(active, value)
                loop == ModifyEach(targets, mods, answers, texts[1],
                                   texts[2])
                made == loop.modify[Len(loop.modify)]
            IN  IF loop.exception # ""
                THEN /\ escaped' = loop.exception
                     /\ calls' = <<Call(ModifyCmd(made.uuid, mods),
                                        made.returncode, made.stderr)>>
                     /\ last' = Result("modify_task", "return", NoError,
                                       loop.value)
                     /\ handler' = Handler(name, hotkey, active, targets,
                                           loop.errors, loop.modify, 0,
                                           <<>>)
                     /\ UNCHANGED <<report_cache, report_cache_time, now,
                                    request, running>>
                     /\ UNCHANGED <<columns_added, tasks, rows, cursor_row,
                                    selected_tasks, active_fields, sort_mode,
                                    current_filter>>
                ELSE /\ LET cleared == clear_selection(selected_tasks, rows,
                                                        tasks)
                        IN  refresh_tasks(current_filter, cleared.rows,
                                          sort_mode, cleared.selected)
                     /\ handler' = Handler(name, hotkey, active, targets,
                                           loop.errors, loop.modify, 1,
                                           RefreshErrors)
                     /\ UNCHANGED <<columns_added, active_fields, sort_mode,
                                    current_filter, escaped>>

\* _schedule_with_hotkey(hotkey), bound to the keys 1 to 9
schedule_with_hotkey(hotkey) ==
    /\ Ready
    /\ LET active == get_active(active_fields)
       IN  \E targets \in get_selected_tasks(selected_tasks, tasks, rows,
                                             cursor_row) :
              Batch("schedule", hotkey, active, targets,
                    SchedulePrecondition(hotkey, active, targets),
                    IF hotkey \in DOMAIN hotkeys THEN hotkeys[hotkey] ELSE "",
                    <<"Failed to schedule: ", "Failed to schedule task ">>)

action_schedule == \E hotkey \in PressedKeys : schedule_with_hotkey(hotkey)

action_clear_date ==
    /\ Ready
    /\ LET active == get_active(active_fields)
       IN  \E targets \in get_selected_tasks(selected_tasks, tasks, rows,
                                             cursor_row) :
              Batch("clear", "0", active, targets,
                    ClearPrecondition(active, targets), "",
                    <<"Failed to clear dates: ",
                      "Failed to clear dates for task ">>)

----------------------------------------------------------------------------
(* One adapter client, used by an application that stays as constructed *)

\* ScheduleApp.__init__ (lines 115-131) with the default configuration
Constructed ==
    /\ columns_added = FALSE
    /\ tasks = <<>>
    /\ rows = <<>>
    /\ cursor_row = 0
    /\ selected_tasks = {}
    /\ active_fields = default_date_fields
    /\ sort_mode = "default"
    /\ current_filter = default_report
    /\ escaped = ""
    /\ handler = Idle

Init ==
    /\ report_cache = None
    /\ report_cache_time = 0
    /\ now = StartTime
    /\ request \in Requests
    /\ calls = <<>>
    /\ last = NoOperation
    /\ running = None
    /\ Constructed

Next ==
    \/ get_report_names
    \/ get_report_names_waits
    \/ get_tasks
    \/ get_tasks_waits
    \/ modify_task
    \/ modify_task_waits
    \/ Tick

Spec == Init /\ [][Next]_vars

----------------------------------------------------------------------------
(* The application from its construction on.  The clock stands still: the  *)
(* handlers read it only through the report-name cache of the adapter.     *)
(* The filter prompt (action_change_filter) and the date format toggle are *)
(* not among the handlers: current_filter stays the default report and the *)
(* dates are shown in the absolute format.                                 *)

AppInit ==
    /\ report_cache = None
    /\ report_cache_time = 0
    /\ now = StartTime
    /\ request = Request("app", None, "", <<>>)
    /\ calls = <<>>
    /\ last = NoOperation
    /\ running = None
    /\ Constructed

AppNext ==
    \/ on_mount
    \/ action_cursor_down
    \/ action_cursor_up
    \/ action_toggle_selection
    \/ action_select_all
    \/ action_clear_all_selection
    \/ action_toggle_wait
    \/ action_toggle_scheduled
    \/ action_toggle_due
    \/ action_cycle_sort
    \/ action_schedule
    \/ action_clear_date

AppSpec == AppInit /\ [][AppNext]_vars

----------------------------------------------------------------------------
(* The application with the filter prompt.  The date field keys are not    *)
(* among the handlers: the active date fields stay as configured, which    *)
(* neither the selection set nor the snapshot nor the table depends on.    *)

ViewNext ==
    \/ on_mount
    \/ action_cursor_down
    \/ action_cursor_up
    \/ action_toggle_selection
    \/ action_select_all
    \/ action_clear_all_selection
    \/ action_cycle_sort
    \/ action_change_filter
    \/ action_schedule
    \/ action_clear_date

ViewSpec == AppInit /\ [][ViewNext]_vars

----------------------------------------------------------------------------
(* The date field state from a construction on.  The argument of the       *)
(* construction DateFieldManager(initial_fields) is drawn here and kept in *)
(* the request, in the place of the modifications; the app is otherwise as *)
(* constructed, is mounted, and the keys W, S and D are pressed.           *)

\* the lists a date field state is constructed with
FieldLists ==
    StringsUpTo({DateFields[i] : i \in 1..Len(DateFields)}, MaxFields)

FieldsInit ==
    /\ report_cache = None
    /\ report_cache_time = 0
    /\ now = StartTime
    /\ request \in {Request("DateFieldManager", None, "", fields) :
                       fields \in {None} \cup {Some(l) : l \in FieldLists}}
    /\ calls = <<>>
    /\ last = NoOperation
    /\ running = None
    /\ columns_added = FALSE
    /\ tasks = <<>>
    /\ rows = <<>>
    /\ cursor_row = 0
    /\ selected_tasks = {}
    /\ active_fields = DateFieldManager(request.modifications)
    /\ sort_mode = "default"
    /\ current_filter = default_report
    /\ escaped = ""
    /\ handler = Idle

FieldsNext ==
    \/ on_mount
    \/ action_toggle_wait
    \/ action_toggle_scheduled
    \/ action_toggle_due

FieldsSpec == FieldsInit /\ [][FieldsNext]_vars

----------------------------------------------------------------------------
(* The configuration file and load_config                                  *)

\* DEFAULT_CONFIG (config.py lines 15-26), a dict from its keys
DEFAULT_CONFIG ==
    [k \in {"default_report", "default_date_fields",
            "confirm_before_schedule", "hotkeys"} |->
        CASE k = "default_report"          -> default_report
          [] k = "default_date_fields"     -> <<"scheduled">>
          [] k = "confirm_before_schedule" -> FALSE
          [] OTHER                         -> hotkeys]

\* the values a configuration file gives to a key, per key, in a list
FileValues(k) ==
    CASE k = "default_report"          -> <<<<"all">>, <<"overdue">>>>
      [] k = "default_date_fields"     -> <<<<"due", "wait">>>>
      [] k = "confirm_before_schedule" -> <<TRUE>>
      [] k = "hotkeys"                 -> <<[h \in {"1", "6"} |->
                                               IF h = "1" THEN "+1d"
                                               ELSE "custom"]>>
      [] OTHER                         -> <<"dark", "light">>

\* the top-level keys a configuration file can have: those of the defaults
\* and one the defaults do not have
FileKeys == DOMAIN DEFAULT_CONFIG \cup {"theme"}

\* what a configuration file says of each key: 0 when it lacks the key,
\* else the place of the value in FileValues
FileChoices ==
    {c \in [FileKeys -> 0..2] : \A k \in FileKeys : c[k] <= Len(FileValues(k))}

\* the mapping a configuration file holds
FileMapping(c) ==
    [k \in {key \in FileKeys : c[key] # 0} |-> FileValues(k)[c[k]]]

\* A configuration file as load_config meets it: there is none ("missing");
\* open() fails with an OSError ("unreadable"); its bytes are no text in the
\* encoding of open(), so that reading it raises UnicodeDecodeError
\* ("undecodable"); the text is no YAML ("invalid"); the text is empty
\* ("empty"); the YAML is a value that is no mapping ("scalar"); the YAML is
\* a mapping.
ConfigFile(kind, mapping) == [kind |-> kind, mapping |-> mapping]

ConfigFiles ==
    {ConfigFile(kind, <<>>) :
        kind \in {"missing", "unreadable", "undecodable", "invalid",
                  "empty", "scalar"}}
    \cup {ConfigFile("mapping", FileMapping(c)) : c \in FileChoices}

UnicodeDecodeError ==
    [kind |-> "UnicodeDecodeError", returncode |-> 0, cmd |-> <<>>,
     output |-> ""]

\* result = DEFAULT_CONFIG.copy(); result.update(file_config)
Update(defaults, file_config) ==
    [k \in DOMAIN defaults \cup DOMAIN file_config |->
        IF k \in DOMAIN file_config THEN file_config[k] ELSE defaults[k]]

\* load_config (lines 54-88) on a configuration file.  The except clause of
\* line 76 catches OSError and yaml.YAMLError; the UnicodeDecodeError that
\* the read of the text stream raises is neither.
LoadConfig(file) ==
    IF file.kind = "missing"
    THEN [outcome |-> "return", error |-> NoError, config |-> DEFAULT_CONFIG]
    ELSE IF file.kind \in {"unreadable", "invalid"}
    THEN [outcome |-> "return", error |-> NoError, config |-> DEFAULT_CONFIG]
    ELSE IF file.kind = "undecodable"
    THEN [outcome |-> "raise", error |-> UnicodeDecodeError,
          config |-> <<>>]
    ELSE IF file.kind = "empty"
    THEN [outcome |-> "return", error |-> NoError, config |-> DEFAULT_CONFIG]
    ELSE [outcome |-> "return", error |-> NoError,
          config |-> IF file.kind = "mapping"
                     THEN Update(DEFAULT_CONFIG, file.mapping)
                     ELSE DEFAULT_CONFIG]

\* the program starts: load_config() reads the file of the request
load_config ==
    /\ request.op = "load_config"
    /\ last.op = "init"
    /\ LET loaded == LoadConfig(request.modifications)
       IN  last' = Result("load_config", loaded.outcome, loaded.error,
                          [type |-> "config", config |-> loaded.config])
    /\ UNCHANGED <<report_cache, report_cache_time, now, request, calls,
                   running>>
    /\ UNCHANGED appvars

\* The configuration file is drawn here and kept in the request, in the
\* place of the modifications.
LoadInit ==
    /\ report_cache = None
    /\ report_cache_time = 0
    /\ now = StartTime
    /\ request \in {Request("load_config", None, "", file) :
                       file \in ConfigFiles}
    /\ calls = <<>>
    /\ last = NoOperation
    /\ running = None
    /\ Constructed

LoadNext == load_config

LoadSpec == LoadInit /\ [][LoadNext]_vars

----------------------------------------------------------------------------
(* The report-name lookup alone, over the texts the engine can print.  A   *)
(* text is a sequence of lines, as result.stdout.splitlines() yields them. *)

\* the longest line of the one-line texts
MaxLine == 5

\* the pieces of the lines: the prefix, the two separators and a name
LinePieces == {"report", ".", "=", "next"}

\* every line of at most MaxLine pieces
Lines == UNION {[1..n -> LinePieces] : n \in 0..MaxLine}

\* the lines of the two `_config` outputs
ConfigLines ==
    {ConfigNext[i] : i \in 1..Len(ConfigNext)}
    \cup {ConfigAll[i] : i \in 1..Len(ConfigAll)}

\* the texts: the two outputs, every single line, every two config lines
ConfigTexts ==
    ConfigOutputs
    \cup {<<line>> : line \in Lines}
    \cup {<<l1, l2>> : l1 \in ConfigLines, l2 \in ConfigLines}

\* get_report_names, the engine printing the text of the request or failing
fetch_report_names ==
    /\ request.op = "get_report_names"
    /\ running = None
    /\ \E a \in IF CacheValid(report_cache, report_cache_time, now)
                THEN {<<0, <<>>, "">>}
                ELSE {<<0, request.modifications, "">>}
                     \cup {<<rc, <<>>, err>> : rc \in ReturnCodes \ {0},
                                              err \in Stderrs} :
          LET r == ReportNames(report_cache, report_cache_time, now,
                               a[1], a[2], a[3])
          IN  /\ report_cache' = r.cache
              /\ report_cache_time' = r.time
              /\ calls' = r.calls
              /\ last' = Result("get_report_names",
                                IF r.raised THEN "raise" ELSE "return",
                                r.error,
                                IF r.raised THEN NoValue
                                ELSE [NoValue EXCEPT !.type = "set",
                                                     !.names = r.names])
    /\ UNCHANGED <<now, request, running>>
    /\ UNCHANGED appvars

\* The text the engine prints is drawn here and kept in the request, in the
\* place of the modifications.
NamesInit ==
    /\ report_cache = None
    /\ report_cache_time = 0
    /\ now = StartTime
    /\ request \in {Request("get_report_names", None, "", text) :
                       text \in ConfigTexts}
    /\ calls = <<>>
    /\ last = NoOperation
    /\ running = None
    /\ Constructed

NamesNext == fetch_report_names

NamesSpec == NamesInit /\ [][NamesNext]_vars

----------------------------------------------------------------------------
(* Properties of the adapter *)

\* the tokens of the argument of the get_tasks request
RequestTokens == Tokenize(Normalize(request.filter_or_report))

\* the last operation was a get_tasks that got as far as running the export
ExportReached ==
    /\ last.op = "get_tasks"
    /\ calls # <<>>
    /\ calls[Len(calls)].cmd # ConfigCmd

ExportCall == calls[Len(calls)]

ExportPrefix == <<command, "rc.confirmation=off", "rc.hooks=0">>

\* After a get_tasks that reached the export with a non-empty argument, the
\* cache holds the report-name set the call resolved against: the lookup
\* either returned the cache or stored what it returned.
KnownReports == TheValue(report_cache)

\* C1: when the argument has at least one token and its last token is a known
\* report name, the export command is the executable, rc.confirmation=off,
\* rc.hooks=0, then every preceding token in order, then `export`, then the
\* last token.
C1_ReportIsLastToken ==
    (/\ ExportReached
     /\ RequestTokens # <<>>
     /\ RequestTokens[Len(RequestTokens)] \in KnownReports)
    => ExportCall.cmd =
           ExportPrefix
           \o SubSeq(RequestTokens, 1, Len(RequestTokens) - 1)
           \o <<"export", RequestTokens[Len(RequestTokens)]>>

\* `p:w next` resolved against a set that knows `next`
C1_Witness ==
    /\ ExportReached
    /\ RequestTokens = <<"p:w", "next">>
    /\ "next" \in KnownReports
    /\ ExportCall.cmd = ExportPrefix \o <<"p:w", "export", "next">>

\* C2: when the argument has at least one token and its last token is not a
\* known report name, the export command is the executable, the two flags,
\* all tokens in order and `export` as the last argument, even if an earlier
\* token is a known report name.
C2_WholeStringIsFilter ==
    (/\ ExportReached
     /\ RequestTokens # <<>>
     /\ RequestTokens[Len(RequestTokens)] \notin KnownReports)
    => ExportCall.cmd = ExportPrefix \o RequestTokens \o <<"export">>

\* `next p:w` resolved against a set that knows `next` but not `p:w`
C2_Witness ==
    /\ ExportReached
    /\ RequestTokens = <<"next", "p:w">>
    /\ "next" \in KnownReports
    /\ "p:w" \notin KnownReports
    /\ ExportCall.cmd = ExportPrefix \o <<"next", "p:w", "export">>

\* the argument is a string of whitespace only, the empty string included
BlankArg ==
    /\ request.op = "get_tasks"
    /\ request.filter_or_report # None
    /\ \A i \in 1..Len(TheValue(request.filter_or_report)) :
           TheValue(request.filter_or_report)[i] \in Whitespace

\* C3: get_tasks with an empty or all-whitespace argument makes exactly one
\* engine invocation, the export with `export` as its last argument and
\* neither filter nor report, and leaves the report-name cache as it was.
C3_BlankExportsAll ==
    [][(BlankArg /\ get_tasks)
       => /\ Len(calls') = 1
          /\ calls'[1].cmd = ExportPrefix \o <<"export">>
          /\ UNCHANGED <<report_cache, report_cache_time>>]_vars

\* a single blank exported everything while the cache was still empty
C3_Witness ==
    /\ request.filter_or_report = Some(<<" ">>)
    /\ last.op = "get_tasks"
    /\ Len(calls) = 1
    /\ calls[1].cmd = ExportPrefix \o <<"export">>
    /\ report_cache = None

\* C4: every step get_tasks(None) can take is a step get_tasks("next") can
\* take from the same state, and the other way round: the same lookup, the
\* same export command, the same outcome.
C4_NoneIsNext ==
    [][/\ (request.filter_or_report = None /\ get_tasks)
          => GetTasks(Some(<<"next">>))
       /\ (request.filter_or_report = Some(<<"next">>) /\ get_tasks)
          => GetTasks(None)]_vars

\* get_tasks(None) fetched the report names and exported the report `next`
C4_Witness ==
    /\ request.op = "get_tasks"
    /\ request.filter_or_report = None
    /\ last.op = "get_tasks"
    /\ Len(calls) = 2
    /\ calls[1].cmd = ConfigCmd
    /\ calls[2].cmd = ExportPrefix \o <<"export", "next">>

\* a step that looks the report names up: directly or through get_tasks
LookupStep ==
    \/ last'.op = "get_report_names" /\ get_report_names
    \/ last'.op = "get_tasks" /\ RequestTokens # <<>> /\ get_tasks

\* the lookup ran the introspection command
Introspected(c) == c # <<>> /\ c[1].cmd = ConfigCmd

C5_WitnessHit ==
    /\ last.op = "get_report_names"
    /\ calls = <<>>
    /\ now - report_cache_time = report_cache_ttl - 1

\* C6: modify_task returns a pair (success, text): success is TRUE exactly
\* when the engine exits 0 and the text is the engine's stderr; it never
\* raises for an engine rejection.
C6_ModifyReturnsPair ==
    last.op = "modify_task"
    => /\ last.outcome = "return"
       /\ last.value.type = "pair"
       /\ last.value.success = (calls[1].returncode = 0)
       /\ last.value.text = calls[1].stderr

ModifySafetyFlags ==
    {"rc.confirmation=off", "rc.bulk=0", "rc.recurrence.confirmation=no",
     "rc.hooks=0"}

\* C7: every modify invocation carries the four safety flags and the
\* argument uuid:<uuid> before `modify`.
C7_ModifyFlags ==
    last.op = "modify_task"
    => LET cmd == calls[1].cmd
           m   == Find(cmd, "modify")
       IN  /\ m <= Len(cmd)
           /\ \A flag \in ModifySafetyFlags :
                  \E i \in 1..(m - 1) : cmd[i] = flag
           /\ \E i \in 1..(m - 1) : cmd[i] = "uuid:" \o request.uuid

\* C8: one modify_task call makes exactly one engine invocation whose
\* arguments after `modify` are one `<field>:<value>` per supplied pair, in
\* the order supplied, and nothing else; an empty value gives `<field>:`.
C8_OneArgumentPerPair ==
    last.op = "modify_task"
    => /\ Len(calls) = 1
       /\ LET cmd   == calls[1].cmd
              m     == Find(cmd, "modify")
              after == SubSeq(cmd, m + 1, Len(cmd))
              mods  == request.modifications
          IN  /\ m <= Len(cmd)
              /\ Len(after) = Len(mods)
              /\ \A i \in 1..Len(mods) :
                     after[i] = mods[i][1] \o ":" \o mods[i][2]

\* two pairs, one of them clearing its field
C8_Witness ==
    /\ last.op = "modify_task"
    /\ request.modifications = << <<"scheduled", "">>, <<"due", "tomorrow">> >>
    /\ SubSeq(calls[1].cmd, Len(calls[1].cmd) - 1, Len(calls[1].cmd))
           = <<"scheduled:", "due:tomorrow">>

\* C9: a lookup whose introspection exits non-zero raises the invocation
\* error with the engine's stderr as its output, returns nothing and leaves
\* the cache names and fetch time as they were, so that the cache is still
\* not valid and the next lookup runs the introspection again.
C9_FailedLookupKeepsCache ==
    [][(Introspected(calls') /\ calls'[1].returncode # 0 /\ LookupStep)
       => /\ last'.outcome = "raise"
          /\ last'.error = CalledProcessError(calls'[1].returncode, ConfigCmd,
                                              calls'[1].stderr)
          /\ last'.value = NoValue
          /\ Len(calls') = 1
          /\ UNCHANGED <<report_cache, report_cache_time>>
          /\ ~(/\ report_cache' # None
               /\ now' - report_cache_time' < report_cache_ttl)]_vars

\* the refetch of an expired set failed and the expired set is still cached
C9_Witness ==
    /\ last.op = "get_report_names"
    /\ last.outcome = "raise"
    /\ last.error.output = "engine error"
    /\ report_cache # None
    /\ now - report_cache_time >= report_cache_ttl

\* C10: when the export exits non-zero, get_tasks raises the invocation
\* error, of the kind a failed introspection raises, with the export command
\* and the engine's stderr, and returns no task list.
C10_FailedExportRaises ==
    (ExportReached /\ ExportCall.returncode # 0)
    => /\ last.outcome = "raise"
       /\ last.error = CalledProcessError(ExportCall.returncode,
                                          ExportCall.cmd, ExportCall.stderr)
       /\ last.error.kind
              = ReportNames(None, 0, now, 1, <<>>, "").error.kind
       /\ last.value = NoValue

\* the export of a report failed with a diagnostic
C10_Witness ==
    /\ ExportReached
    /\ ExportCall.returncode # 0
    /\ ExportCall.stderr = "engine error"
    /\ ExportCall.cmd = ExportPrefix \o <<"export", "next">>
    /\ last.outcome = "raise"

\* C11: an export that exits 0 ends in one of two ways: get_tasks returns a
\* list of task records, or it fails with the malformed-response error, which
\* is not the invocation error, and returns nothing.  An output that is no
\* list of task records leaves only the second.
C11_MalformedExportRaises ==
    (ExportReached /\ ExportCall.returncode = 0)
    => \/ /\ last.outcome = "return"
          /\ last.value.type = "list"
       \/ /\ last.outcome = "raise"
          /\ last.error.kind = JSONDecodeError.kind
          /\ last.error.kind # CalledProcessError(1, <<>>, "").kind
          /\ last.value = NoValue

\* C12: no engine invocation is waited for without end: an engine process
\* that never exits is cut off by a timeout and reported as a failure, so the
\* client is never left waiting for a process.
C12_InvocationsTimeOut == running = None

----------------------------------------------------------------------------
(* Properties of the application *)

Range(s) == {s[i] : i \in 1..Len(s)}

\* the last handler was the named batch handler and it passed its
\* precondition tests: it worked on at least one target
BatchRan(name) == handler.name = name /\ handler.targets # <<>>

\* the modify calls of the last handler are one per target, each with the
\* field map that gives `value` to every active field and to nothing else
OneModifyPerTarget(value) ==
    /\ Len(handler.modify) = Len(handler.targets)
    /\ \A u \in Range(handler.targets) :
          Cardinality({i \in 1..Len(handler.modify) :
                          handler.modify[i].uuid = u}) = 1
    /\ \A i \in 1..Len(handler.modify) :
          /\ handler.modify[i].uuid \in Range(handler.targets)
          /\ Range(handler.modify[i].modifications)
                 = {<<f, value>> : f \in Range(handler.active)}
          /\ Len(handler.modify[i].modifications) = Len(handler.active)

\* the modify calls of the last handler that failed
FailedCalls ==
    {i \in 1..Len(handler.modify) : handler.modify[i].returncode # 0}

\* C13: a batch schedule with hotkey h that passed its preconditions made
\* exactly one modify call per targeted uuid and none for any other task,
\* and the field map of every call is {f -> hotkeys[h]} over the fields that
\* were active at the key press.
C13_ScheduleModifiesEachTarget ==
    BatchRan("schedule") => OneModifyPerTarget(hotkeys[handler.hotkey])

\* C14: a batch over N targets attempts all N modify calls whichever of them
\* fail, and reports one failure per failed call.
C14_FailureIsolation ==
    (BatchRan("schedule") \/ BatchRan("clear"))
    => /\ Len(handler.modify) = Len(handler.targets)
       /\ Len(handler.errors) = Cardinality(FailedCalls)

\* C15: a batch that passed its preconditions ends with the selection set
\* empty and exactly one fetch, issued after the last modify call.
C15_BatchEndsWithFetch ==
    (BatchRan("schedule") \/ BatchRan("clear"))
    => /\ selected_tasks = {}
       /\ handler.fetches = 1
       /\ last.op = "get_tasks"

\* a step that reports the one error and does nothing else: no modify call,
\* no fetch, no engine invocation, no exception, and the snapshot, the table,
\* the selection, the active fields and the cache stay as they are
OnlyReports(error) ==
    /\ handler'.errors = <<error>>
    /\ handler'.modify = <<>>
    /\ handler'.fetches = 0
    /\ handler'.refresh = <<>>
    /\ calls' = <<>>
    /\ escaped' = ""
    /\ UNCHANGED <<tasks, rows, cursor_row, selected_tasks, active_fields,
                   sort_mode, current_filter, report_cache,
                   report_cache_time>>

\* C16, as stated: a batch schedule with any hotkey while no date field is
\* active reports the "no active fields" error and does nothing else.
C16_NoActiveFieldsAnyHotkey ==
    [][\A hotkey \in PressedKeys :
          (active_fields = {} /\ schedule_with_hotkey(hotkey))
          => OnlyReports("No active date fields. Use W/S/D to toggle.")]_vars

\* C16, amended: a batch schedule with a configured hotkey while no date
\* field is active reports the "no active fields" error and has no side
\* effect: no modify call, no fetch, the selection set unchanged.
C16_NoActiveFields ==
    [][\A hotkey \in PressedKeys :
          (/\ hotkey \in DOMAIN hotkeys
           /\ active_fields = {}
           /\ schedule_with_hotkey(hotkey))
          => OnlyReports("No active date fields. Use W/S/D to toggle.")]_vars

\* a configured hotkey was pressed with tasks selected and no field active
C16_Witness ==
    /\ handler.name = "schedule"
    /\ handler.hotkey \in DOMAIN hotkeys
    /\ handler.errors = <<"No active date fields. Use W/S/D to toggle.">>
    /\ active_fields = {}
    /\ Cardinality(selected_tasks) = 2

\* C17: a schedule hotkey without an entry in the hotkey mapping reports the
\* hotkey-not-configured error and nothing else, whatever fields are active
\* and whatever is selected: no exception, no modify call, no fetch, the
\* selection set and the active fields unchanged.
C17_UnconfiguredHotkey ==
    [][\A hotkey \in PressedKeys :
          (hotkey \notin DOMAIN hotkeys /\ schedule_with_hotkey(hotkey))
          => OnlyReports("Hotkey " \o hotkey \o " not configured")]_vars

\* key 9 was pressed with a task selected and no field active
C17_Witness ==
    /\ handler.name = "schedule"
    /\ handler.hotkey = "9"
    /\ handler.errors = <<"Hotkey 9 not configured">>
    /\ selected_tasks # {}
    /\ active_fields = {}

\* the effective target list is empty
NoTargets ==
    get_selected_tasks(selected_tasks, tasks, rows, cursor_row) = {<<>>}

\* C18, as stated: a batch schedule or batch clear with an empty effective
\* target list reports the "no tasks selected" error, makes no modify call
\* and triggers no fetch.
C18_NoTargetsAnyState ==
    [][(/\ NoTargets
        /\ \/ \E hotkey \in PressedKeys : schedule_with_hotkey(hotkey)
           \/ action_clear_date)
       => OnlyReports("No tasks selected")]_vars

\* C18, amended: a batch schedule with a configured hotkey, or a batch clear,
\* with at least one active field and an empty effective target list reports
\* the "no tasks selected" error, makes no modify call and triggers no fetch.
C18_NoTargets ==
    [][(/\ NoTargets
        /\ active_fields # {}
        /\ \/ \E hotkey \in PressedKeys :
                 hotkey \in DOMAIN hotkeys /\ schedule_with_hotkey(hotkey)
           \/ action_clear_date)
       => OnlyReports("No tasks selected")]_vars

\* batch clear with a field active after the initial load failed
C18_Witness ==
    /\ handler.name = "clear"
    /\ handler.errors = <<"No tasks selected">>
    /\ active_fields # {}
    /\ Len(rows) = 1
    /\ rows[1].key = "error"
    /\ tasks = <<>>

\* C19: batch clear with at least one active field and one target makes one
\* modify call per target that gives the empty string to every active field,
\* reports one failure per failed call, then clears the selection and
\* fetches; with no active field or no target it reports an error and makes
\* no modify call.
C19_ClearFollowsContract ==
    handler.name = "clear"
    => IF handler.targets # <<>>
       THEN /\ OneModifyPerTarget("")
            /\ Len(handler.errors) = Cardinality(FailedCalls)
            /\ selected_tasks = {}
            /\ handler.fetches = 1
       ELSE /\ Len(handler.errors) = 1
            /\ handler.modify = <<>>

\* the uuids of the snapshot
SnapshotUuids == {tasks[i].uuid : i \in 1..Len(tasks)} \ {""}

\* the task the cursor identifies: the one shown in the row under the cursor
CursorTask ==
    IF cursor_row \in 0..(Len(rows) - 1)
       /\ rows[cursor_row + 1].key \in SnapshotUuids
    THEN {rows[cursor_row + 1].key}
    ELSE {}

\* C20: the effective targets are the members of the selection set when it
\* is not empty, wherever the cursor is; the uuid of the task the cursor
\* identifies when the set is empty and the cursor is on a task; and nothing
\* otherwise.
C20_EffectiveTargets ==
    Ready
    => \A targets \in get_selected_tasks(selected_tasks, tasks, rows,
                                           cursor_row) :
          Range(targets) = IF selected_tasks # {} THEN selected_tasks
                           ELSE CursorTask

\* the uuids the engine's records carry
RecordUuids == {TaskA.uuid, TaskB.uuid, TaskC.uuid} \ {""}

\* C21: a toggle on a task adds its uuid to the selection set when it is
\* absent and removes it when it is present, leaves every other member alone,
\* and a second toggle on the same task would restore the set; a toggle that
\* finds no task, or a task without a uuid, changes nothing; and the set
\* holds uuids of records only, never the empty identifier or a row index.
C21_ToggleSelection ==
    [][/\ selected_tasks' \subseteq RecordUuids
       /\ (Ready /\ action_toggle_selection)
          => IF ToggledTask = {}
             THEN selected_tasks' = selected_tasks
             ELSE \A task \in ToggledTask :
                     /\ task.uuid \in selected_tasks'
                        <=> task.uuid \notin selected_tasks
                     /\ selected_tasks' \ {task.uuid}
                        = selected_tasks \ {task.uuid}
                     /\ ToggleSelected(selected_tasks', task.uuid)
                        = selected_tasks]_vars

\* u2 alone is selected and marked while both tasks are in the snapshot: the
\* toggle added it, or removed u1 after a select_all
C21_Witness ==
    /\ Ready
    /\ tasks = <<TaskA, TaskB>>
    /\ selected_tasks = {"u2"}
    /\ \E i \in 1..Len(rows) : rows[i].key = "u2" /\ rows[i].id.marker

\* C22: select_all makes the selection set the union of its previous members
\* and the uuids of the tasks of the snapshot that have one; it removes no
\* member, and a second select_all changes nothing.
C22_SelectAll ==
    [][(Ready /\ action_select_all)
       => /\ selected_tasks' = selected_tasks \cup SnapshotUuids
          /\ selected_tasks \subseteq selected_tasks'
          /\ SelectAll(selected_tasks', tasks') = selected_tasks']_vars

\* u1 was selected, left the snapshot with a refresh, and stayed in the set
\* when select_all added and marked u2
C22_Witness ==
    /\ Ready
    /\ tasks = <<TaskC, TaskB>>
    /\ selected_tasks = {"u1", "u2"}
    /\ \E i \in 1..Len(rows) : rows[i].key = "u2" /\ rows[i].id.marker

\* C23: clearing the selection empties the selection set whatever it held,
\* members that are not in the snapshot included, and leaves the snapshot,
\* the active date fields and the current filter as they were.
C23_ClearSelection ==
    [][(Ready /\ action_clear_all_selection)
       => /\ selected_tasks' = {}
          /\ UNCHANGED <<tasks, active_fields, current_filter>>]_vars

\* the x key emptied the set while the snapshot held a task
C23_Witness ==
    /\ handler.name = "clear_selection"
    /\ selected_tasks = {}
    /\ tasks = <<TaskC, TaskB>>
    /\ active_fields = {"due", "scheduled"}

\* C24: in every reachable state the selection set holds only uuids of tasks
\* of the current snapshot.
C24_SelectionWithinSnapshot == selected_tasks \subseteq SnapshotUuids

\* the last step was a refresh_tasks after a filter change or after the sort
\* mode came back to default
Refreshed ==
    /\ handler.fetches = 1
    /\ handler.name \in {"refresh_tasks", "change_filter"}

\* C25: a refresh of the snapshot after a filter change or after a sort
\* cycle back to default leaves the selection set as it was, and a uuid
\* whose task is not in the snapshot leaves the set only when a clear or a
\* completed batch empties the set.
C25_RefreshKeepsSelection ==
    [][/\ (Ready /\ Refreshed' /\ (action_cycle_sort \/ action_change_filter))
          => UNCHANGED selected_tasks
       /\ \A uuid \in selected_tasks \ SnapshotUuids :
             uuid \notin selected_tasks'
             => /\ selected_tasks' = {}
                /\ handler'.name \in {"clear_selection", "schedule",
                                      "clear"}]_vars

\* a filter change fetched a snapshot without u1 while u1 was selected
C25_Witness ==
    /\ Refreshed
    /\ handler.name = "change_filter"
    /\ last.outcome = "return"
    /\ tasks = <<TaskC, TaskB>>
    /\ selected_tasks = {"u1"}

----------------------------------------------------------------------------
(* Properties of the date field state *)

\* C26: toggle(field) flips the membership of that field and of no other
\* field, and a second toggle of the same field gives back the set the
\* first one started from, whatever that set was, the empty set included.
C26_ToggleFlipsOneField ==
    [][\A field \in {"due", "scheduled", "wait"} :
          (Ready /\ action_toggle(field))
          => /\ field \in active_fields' <=> field \notin active_fields
             /\ active_fields' \ {field} = active_fields \ {field}
             /\ toggle(active_fields', field) = active_fields]_vars

\* a state constructed with no field in which the D key switched `due` on
C26_Witness ==
    /\ Ready
    /\ request.modifications = None
    /\ active_fields = {"due"}

\* the place of a field name in the order of Python's str comparison
FieldRank(field) ==
    CASE field = "due"       -> 1
      [] field = "scheduled" -> 2
      [] field = "wait"      -> 3
      [] OTHER               -> 4

\* a list in ascending order that has no name twice
SortedNoDuplicates(names) ==
    \A i, j \in 1..Len(names) :
        i < j => FieldRank(names[i]) < FieldRank(names[j])

\* C27: get_active() returns the active names in sorted order, each once,
\* whatever the order of the construction arguments and of the toggles was;
\* a construction with no argument gives the empty list, and a name that
\* the initial list has twice is there once.
C27_GetActiveSorted ==
    LET initial == get_active(DateFieldManager(request.modifications))
    IN  /\ SortedNoDuplicates(get_active(active_fields))
        /\ Range(get_active(active_fields)) = active_fields
        /\ \A f, g \in {"due", "scheduled", "wait"} :
              get_active(toggle(toggle(active_fields, f), g))
              = get_active(toggle(toggle(active_fields, g), f))
        /\ request.op = "DateFieldManager"
           => /\ SortedNoDuplicates(initial)
              /\ request.modifications = None => initial = <<>>
              /\ request.modifications # None
                 => /\ Range(initial)
                       = Range(TheValue(request.modifications))
                    /\ \A l \in FieldLists :
                          Range(l) = Range(TheValue(request.modifications))
                          => get_active(DateFieldManager(Some(l))) = initial

\* constructed with wait, scheduled, scheduled; then scheduled was switched
\* off and due on
C27_Witness ==
    /\ Ready
    /\ request.modifications = Some(<<"wait", "scheduled", "scheduled">>)
    /\ get_active(DateFieldManager(request.modifications))
       = <<"scheduled", "wait">>
    /\ get_active(active_fields) = <<"due", "wait">>

----------------------------------------------------------------------------
(* Properties of the report-name cache *)

\* C28: the cached names and the fetch time change only in a lookup whose
\* introspection succeeded, which stores its names with the time of the
\* lookup; modify_task leaves both alone, and so does a get_tasks that runs
\* no introspection, whatever its export does.
C28_CacheMutatedByIntrospectionOnly ==
    [][/\ (report_cache' # report_cache
           \/ report_cache_time' # report_cache_time)
          => /\ last'.op # "modify_task"
             /\ Introspected(calls')
             /\ calls'[1].returncode = 0
             /\ report_cache' # None
             /\ report_cache_time' = now'
       /\ last'.op = "modify_task"
          => UNCHANGED <<report_cache, report_cache_time>>
       /\ (last'.op = "get_tasks" /\ calls' # <<>> /\ ~Introspected(calls'))
          => UNCHANGED <<report_cache, report_cache_time>>]_vars

\* modify_task returned while a fetched set was cached and still valid
C28_Witness ==
    /\ last.op = "modify_task"
    /\ last.outcome = "return"
    /\ report_cache # None
    /\ now - report_cache_time < report_cache_ttl

----------------------------------------------------------------------------
(* Properties of the engine processes of the application *)

\* C29: never more than one engine process is in flight: a batch that passed
\* its preconditions has made its modify calls one after another, the i-th
\* for the i-th target, each returned before the next began, and the last
\* process it ran, after all of them, was the export of its one fetch.
C29_OneProcessAtATime ==
    /\ Cardinality(running) <= 1
    /\ (BatchRan("schedule") \/ BatchRan("clear"))
       => /\ running = None
          /\ Len(handler.modify) = Len(handler.targets)
          /\ \A i \in 1..Len(handler.modify) :
                handler.modify[i].uuid = handler.targets[i]
          /\ handler.fetches = 1
          /\ calls # <<>>
          /\ "export" \in Range(calls[Len(calls)].cmd)

----------------------------------------------------------------------------
(* Properties of the read path *)

\* C30: a fetch that fails on the read path does not end the app: in the
\* initial load the snapshot stays empty and the table shows the one error
\* row; in a later refresh the snapshot and the rows of the table stay as
\* they were before the refresh and the error is notified.
C30_FailedFetchIsHandled ==
    [][(last'.op = "get_tasks" /\ last'.outcome = "raise")
       => /\ escaped' = ""
          /\ IF handler'.name = "on_mount"
             THEN /\ tasks' = <<>>
                  /\ rows' = <<ErrorRow(last'.error)>>
             ELSE /\ tasks' = tasks
                  /\ Refreshed' => rows' = rows
                  /\ handler'.refresh
                     = <<"Error refreshing tasks: "
                         \o ErrorText(last'.error)>>]_vars

\* a refresh failed while the table showed two tasks, and still shows them
C30_Witness ==
    /\ Refreshed
    /\ last.outcome = "raise"
    /\ handler.refresh # <<>>
    /\ escaped = ""
    /\ tasks = <<TaskA, TaskB>>
    /\ Len(rows) = 2

----------------------------------------------------------------------------
(* Properties of the filter prompt *)

\* C31: a cancelled prompt leaves the current filter and the snapshot as
\* they were and runs no fetch and no engine process; a submitted string, the
\* empty one included, becomes the current filter, and the handler issues
\* one fetch, a get_tasks with that string as its argument.
C31_FilterPrompt ==
    [][\A result \in PromptResults :
          (Ready /\ handler'.name = "change_filter"
                 /\ on_report_result(result))
          => IF result = None
             THEN /\ UNCHANGED <<current_filter, tasks>>
                  /\ handler'.fetches = 0
                  /\ calls' = <<>>
             ELSE /\ current_filter' = TheValue(result)
                  /\ handler'.fetches = 1
                  /\ last'.op = "get_tasks"
                  /\ GetTasks(result)]_vars

\* the empty string was submitted: it is the current filter, and the one
\* fetch exported everything
C31_Witness ==
    /\ handler.name = "change_filter"
    /\ handler.fetches = 1
    /\ current_filter = <<>>
    /\ last.op = "get_tasks"
    /\ Len(calls) = 1
    /\ calls[1].cmd = ExportPrefix \o <<"export">>

----------------------------------------------------------------------------
(* Properties of the configuration *)

\* the file of the request and what load_config made of it
LoadedFile == request.modifications

LoadedConfig == last.value.config

\* C32: load_config returns the default configuration when the file is
\* missing, cannot be read, is no valid YAML or is empty; otherwise the
\* result has every default key, each top-level key of the file with the
\* value of the file, and every default key the file lacks with its default.
C32_LoadConfig ==
    last.op = "load_config"
    => /\ last.outcome = "return"
       /\ LoadedFile.kind \in {"missing", "unreadable", "undecodable",
                                "invalid", "empty"}
          => LoadedConfig = DEFAULT_CONFIG
       /\ LoadedFile.kind \in {"scalar", "mapping"}
          => /\ DOMAIN DEFAULT_CONFIG \subseteq DOMAIN LoadedConfig
             /\ \A k \in DOMAIN LoadedFile.mapping :
                   LoadedConfig[k] = LoadedFile.mapping[k]
             /\ \A k \in DOMAIN DEFAULT_CONFIG \ DOMAIN LoadedFile.mapping :
                   LoadedConfig[k] = DEFAULT_CONFIG[k]

----------------------------------------------------------------------------
(* Properties of the cursor *)

\* C33: in every state in which the app waits for a key, the task that
\* toggle-selection works on, and the task the cursor fallback of the
\* effective targets names, is the task shown in the table row under the
\* cursor (and there is none when that row shows no task).
C33_CursorNamesDisplayedTask ==
    Ready
    => /\ {task.uuid : task \in ToggledTask} = CursorTask
       /\ \A targets \in get_selected_tasks({}, tasks, rows, cursor_row) :
             Range(targets) = CursorTask

----------------------------------------------------------------------------
(* Properties of a selection that outlived its tasks *)

\* C34: every modify call of a batch schedule or batch clear is for a uuid
\* of the snapshot the batch started with, and selected uuids that are not
\* in the snapshot count for nothing: when no selected uuid is in the
\* snapshot, the effective targets are those of the empty selection.
C34_OrphansAreInert ==
    /\ (BatchRan("schedule") \/ BatchRan("clear"))
       => \A i \in 1..Len(handler.modify) :
             handler.modify[i].uuid \in SnapshotUuids
    /\ (Ready /\ selected_tasks \cap SnapshotUuids = {})
       => get_selected_tasks(selected_tasks, tasks, rows, cursor_row)
          = get_selected_tasks({}, tasks, rows, cursor_row)

----------------------------------------------------------------------------
(* Properties of the selection marker *)

\* C35: in every reachable state, each table row that shows a task has the
\* selection marker in its ID cell exactly when the uuid of that task is in
\* the selection set.
C35_MarkerShowsSelection ==
    \A i \in 1..Len(rows) :
        rows[i].key \in RecordUuids
        => (rows[i].id.marker <=> rows[i].key \in selected_tasks)

----------------------------------------------------------------------------
(* Properties of the snapshot and the filter *)

\* the step was a fetch that returned and whose tasks became the snapshot
FetchedSnapshot ==
    /\ last'.op = "get_tasks"
    /\ last'.outcome = "return"
    /\ tasks' = last'.value.tasks

\* C36: the snapshot is always what the most recent successful fetch
\* returned, and that fetch was made with the current filter: the snapshot
\* changes only in a fetch with the current filter that returns, and the
\* current filter changes only together with such a fetch, so a filter
\* change whose fetch fails leaves no filter that the snapshot was not
\* fetched with.
C36_SnapshotIsOfCurrentFilter ==
    [][/\ tasks' # tasks
          => FetchedSnapshot /\ GetTasks(Some(current_filter'))
       /\ current_filter' # current_filter
          => FetchedSnapshot /\ GetTasks(Some(current_filter'))]_vars

----------------------------------------------------------------------------
(* Properties of the lookup inside get_tasks *)

\* C37: a get_tasks whose argument has at least one token and whose lookup
\* of the report names fails raises the error of the lookup and runs no
\* export; one that finds the cache still valid runs the export as its only
\* engine invocation, and no introspection.
C37_LookupInsideGetTasks ==
    [][/\ (/\ request.op = "get_tasks"
           /\ last'.op = "get_tasks"
           /\ Introspected(calls')
           /\ calls'[1].returncode # 0
           /\ RequestTokens # <<>>
           /\ get_tasks)
          => /\ last'.outcome = "raise"
             /\ last'.error
                = CalledProcessError(calls'[1].returncode, ConfigCmd,
                                     calls'[1].stderr)
             /\ \A i \in 1..Len(calls') : calls'[i].cmd = ConfigCmd
       /\ (/\ request.op = "get_tasks"
           /\ last'.op = "get_tasks"
           /\ report_cache # None
           /\ now - report_cache_time < report_cache_ttl
           /\ RequestTokens # <<>>
           /\ get_tasks)
          => /\ Len(calls') = 1
             /\ calls'[1].cmd # ConfigCmd
             /\ "export" \in Range(calls'[1].cmd)]_vars

\* the lookup of a get_tasks failed: the introspection is the only process
\* that ran and get_tasks raised its error
C37_Witness ==
    /\ last.op = "get_tasks"
    /\ last.outcome = "raise"
    /\ calls # <<>>
    /\ calls[Len(calls)].cmd = ConfigCmd
    /\ calls[1].returncode # 0
    /\ last.error.cmd = ConfigCmd

----------------------------------------------------------------------------
(* The report names of an introspection output *)

\* The names a line contributes by its form alone: the line is
\* `report.<name>.<field>`, alone or followed by `=<value>`, <name> a
\* non-empty run without a dot and <field> a non-empty run without `=`.
ReportLineNames(line) ==
    {Join(SubSeq(line, 3, i)) :
        i \in {i \in 3..Len(line) :
                  /\ line[1] = "report"
                  /\ line[2] = "."
                  /\ \A k \in 3..i : line[k] # "."
                  /\ i + 1 <= Len(line)
                  /\ line[i + 1] = "."
                  /\ \E j \in (i + 2)..Len(line) :
                        /\ \A k \in (i + 2)..j : line[k] # "="
                        /\ j = Len(line) \/ line[j + 1] = "="}}

NamesOfText(text) == UNION {ReportLineNames(text[i]) : i \in 1..Len(text)}

\* the lines of the text that contribute a name
ReportLines(text) == {i \in 1..Len(text) : ReportLineNames(text[i]) # {}}

\* C38: the report-name set a fetch produces (returns and caches) is exactly
\* the set of the <name>s of the output lines of the form
\* report.<name>.<field> or report.<name>.<field>=<value>; a name is in it
\* once however many lines carry it, and a line of another form adds nothing.
C38_ReportNamesOfOutput ==
    (/\ request.op = "get_report_names"
     /\ last.op = "get_report_names"
     /\ last.outcome = "return")
    => /\ last.value.names = NamesOfText(request.modifications)
       /\ report_cache = Some(NamesOfText(request.modifications))

\* a fetch of a text with two lines of one report and a fetch of a text with
\* a line of another form have happened
C38_Witness ==
    /\ request.op = "get_report_names"
    /\ last.op = "get_report_names"
    /\ last.outcome = "return"
    /\ calls # <<>>
    /\ Cardinality(ReportLines(request.modifications)) = 2
    /\ Cardinality(ReportLines(request.modifications))
         < Len(request.modifications)
    /\ last.value.names = {"next"}

====
